---- MODULE Spec2Model ----
(***************************************************************************)
(* A model of the LRU cache of src/lib.rs: the nodes on the heap, the      *)
(* doubly linked recency list (head, tail, prev, next), the HashMap from   *)
(* KeyRef to node pointer, and the operations new, put, get, detach,       *)
(* attach and drop.                                                        *)
(***************************************************************************)
EXTENDS Integers, FiniteSets, Sequences, TLC

\* Bounds of the model.
MaxKey == 3
MaxCap == 3
MaxNodes == 3

Keys == 1..MaxKey
Vals == {10, 20}
Caps == 0..MaxCap
Addrs == 1..MaxNodes

\* Option<T>
None == <<>>
Some(x) == <<x>>
Unwrap(o) == o[1]

VARIABLES
    status,      \* "live", "panicked" or "dropped"
    cap,         \* LruCache.cap
    head,        \* LruCache.head : Option<NonNull<Node>>
    tail,        \* LruCache.tail : Option<NonNull<Node>>
    map,         \* LruCache.map : KeyRef (a node address) -> node address
    heap,        \* the nodes allocated and not released: address -> Node
    nextAddr,    \* the address the next Box::new returns
    freeCount,   \* address -> how many times its storage was released
    lastOp,      \* the last operation, its arguments and its locals
    ret,         \* the value the last operation returned
    touchOrder,  \* history: the keys touched so far, latest touch first
    ref,         \* reference LRU: sequence of <<key, value>>, latest first
    refRet,      \* the value the reference LRU returned for the last operation
    pc           \* "idle" between operations, else the next step of put

vars == <<status, cap, head, tail, map, heap, nextAddr, freeCount, lastOp,
          ret, touchOrder, ref, refRet, pc>>

----------------------------------------------------------------------------
\* Node::new
NodeNew(k, v) == [k |-> k, v |-> v, prev |-> None, next |-> None]

\* The cache and the memory it works on, as one value the helpers transform.
Cur == [head |-> head, tail |-> tail, map |-> map, cap |-> cap,
        heap |-> heap, freeCount |-> freeCount]

\* The KeyRef entries of the map whose node carries key k (Hash and Eq of
\* KeyRef read the key through the pointer).
MapFind(m, h, k) == {r \in DOMAIN m : h[r].k = k}

\* HashMap::get
MapGet(m, h, k) ==
    IF MapFind(m, h, k) = {} THEN None
    ELSE Some(m[CHOOSE r \in MapFind(m, h, k) : TRUE])

\* HashMap::remove (the map that is left)
MapRemove(m, h, k) == [r \in (DOMAIN m) \ MapFind(m, h, k) |-> m[r]]

\* HashMap::insert(KeyRef(kr), val): an equal key keeps its entry and gets
\* the new value, otherwise a new entry is added.
MapInsert(m, h, kr, val) ==
    IF MapFind(m, h, h[kr].k) # {}
    THEN [r \in DOMAIN m |-> IF h[r].k = h[kr].k THEN val ELSE m[r]]
    ELSE [r \in (DOMAIN m) \cup {kr} |-> IF r = kr THEN val ELSE m[r]]

\* Mutant: detach of the first node leaves head on the detached node.
DetachPrevKeepsHead(M, node) ==
    IF M.heap[node].prev # None
    THEN [M EXCEPT !.heap[Unwrap(M.heap[node].prev)].next = M.heap[node].next]
    ELSE M

\* detach, first match: the previous node, or head, skips node.
DetachPrev(M, node) ==
    IF M.heap[node].prev # None
    THEN [M EXCEPT !.heap[Unwrap(M.heap[node].prev)].next = M.heap[node].next]
    ELSE [M EXCEPT !.head = M.heap[node].next]

\* detach, second match: the next node, or tail, skips node.
DetachNext(M, node) ==
    IF M.heap[node].next # None
    THEN [M EXCEPT !.heap[Unwrap(M.heap[node].next)].prev = M.heap[node].prev]
    ELSE [M EXCEPT !.tail = M.heap[node].prev]

\* Mutant: detach leaves node's own links as they were.
DetachResetSkipped(M, node) == M

\* detach, end: node's own links are reset.
DetachReset(M, node) ==
    [M EXCEPT !.heap[node].prev = None, !.heap[node].next = None]

\* LruCache::detach
Detach(M, node) == DetachReset(DetachNext(DetachPrev(M, node), node), node)

\* Mutant: attach leaves the old head's prev link as it was.
AttachBeforeNoBackLink(M, node, hd) ==
    [M EXCEPT !.heap[node].next = Some(hd),
              !.heap[node].prev = None,
              !.head = Some(node)]

\* attach when the list has a head hd.
AttachBefore(M, node, hd) ==
    [M EXCEPT !.heap[hd].prev = Some(node),
              !.heap[node].next = Some(hd),
              !.heap[node].prev = None,
              !.head = Some(node)]

\* Mutant: attach to an empty list sets head and leaves tail.
AttachFirstNoTail(M, node) ==
    [M EXCEPT !.heap[node].prev = None, !.heap[node].next = None,
              !.head = Some(node)]

\* attach when the list is empty.
AttachFirst(M, node) ==
    [M EXCEPT !.heap[node].prev = None, !.heap[node].next = None,
              !.head = Some(node), !.tail = Some(node)]

\* LruCache::attach
Attach(M, node) ==
    IF M.head # None THEN AttachBefore(M, node, Unwrap(M.head))
    ELSE AttachFirst(M, node)

\* Box::from_raw(p) dropped at the end of its scope: the storage is released.
Free(M, node) ==
    [M EXCEPT !.heap = [a \in (DOMAIN M.heap) \ {node} |-> M.heap[a]],
              !.freeCount = [M.freeCount EXCEPT ![node] = @ + 1]]

----------------------------------------------------------------------------
\* Mutant: new without its assertion.
NewUnchecked(c) ==
    [status |-> "live", cap |-> c, head |-> None, tail |-> None, map |-> <<>>]

\* LruCache::new: the assertion cap > 0 panics for capacity 0, and no cache
\* is produced; otherwise the cache is empty.
New(c) ==
    [status |-> IF c > 0 THEN "live" ELSE "panicked",
     cap |-> c, head |-> None, tail |-> None, map |-> <<>>]

\* Mutant: the capacity test never asks for an eviction.
FullNever(M) == FALSE

\* Mutant: the capacity test compares the wrong way round.
FullReversed(M) == Cardinality(DOMAIN M.map) <= M.cap

\* Mutant: the capacity test lets one entry too many in.
FullOffByOne(M) == Cardinality(DOMAIN M.map) > M.cap

\* put's capacity test: self.map.len() >= self.cap
Full(M) == Cardinality(DOMAIN M.map) >= M.cap

\* Mutant: put forgets the old value and returns None.
OldValueDropped(M, old_node, node) == None

\* Mutant: put returns the value it has just stored.
OldValueIsNew(M, old_node, node) ==
    IF old_node # None THEN Some(M.heap[node].v) ELSE None

\* The value put returns: the value of the old node, read as the node is
\* released, or None when the key was new.
OldValue(M, old_node, node) ==
    IF old_node # None THEN Some(M.heap[Unwrap(old_node)].v) ELSE None

\* put, line 95: Box::leak(Box::new(Node::new(k, v))) at address node.
PutAlloc(M, node, k, v) ==
    [M EXCEPT !.heap = (node :> NodeNew(k, v)) @@ M.heap]

\* self.map.remove(&KeyRef(n)): the entry of n's key leaves the map.
RemoveKeyOf(M, n) ==
    [M EXCEPT !.map = MapRemove(M.map, M.heap, M.heap[n].k)]

\* Mutant: the old node leaves the map and stays in the list.
PutTakeOldNoDetach(M, node, old) ==
    [M |-> RemoveKeyOf(M, node), old |-> old]

\* put, lines 97-100, with old the entry the map held for the key: the
\* entry is removed and the node it pointed to is detached.
PutTakeOld(M, node, old) ==
    [M |-> IF old # None THEN Detach(RemoveKeyOf(M, node), Unwrap(old))
           ELSE RemoveKeyOf(M, node),
     old |-> old]

\* put, lines 97-100.
PutRemoveOld(M, node) ==
    PutTakeOld(M, node, MapGet(M.map, M.heap, M.heap[node].k))

\* Mutant: the capacity test counts the replaced entry as still present.
PutEvictCountsOld(F) ==
    IF Cardinality(DOMAIN F.M.map) + (IF F.old # None THEN 1 ELSE 0) < F.M.cap
    THEN [M |-> F.M, old |-> F.old, evict |-> None, panic |-> FALSE]
    ELSE IF F.M.tail = None
    THEN [M |-> F.M, old |-> F.old, evict |-> None, panic |-> TRUE]
    ELSE [M |-> RemoveKeyOf(Detach(F.M, Unwrap(F.M.tail)), Unwrap(F.M.tail)),
          old |-> F.old, evict |-> F.M.tail, panic |-> FALSE]

\* put, lines 102-106: when the map is full the tail is detached and its
\* key removed from the map; unwrap panics when there is no tail.
PutEvict(F) ==
    IF ~Full(F.M)
    THEN [M |-> F.M, old |-> F.old, evict |-> None, panic |-> FALSE]
    ELSE IF F.M.tail = None
    THEN [M |-> F.M, old |-> F.old, evict |-> None, panic |-> TRUE]
    ELSE [M |-> RemoveKeyOf(Detach(F.M, Unwrap(F.M.tail)), Unwrap(F.M.tail)),
          old |-> F.old, evict |-> F.M.tail, panic |-> FALSE]

\* Mutant: the new node never enters the map.
InsertNodeSkipped(M, node) == M

\* self.map.insert(KeyRef(node), node)
InsertNode(M, node) ==
    [M EXCEPT !.map = MapInsert(M.map, M.heap, node, node)]

\* put, lines 108-109: the new node becomes head and enters the map.
PutInsert(F, node) ==
    IF F.panic THEN F ELSE [F EXCEPT !.M = InsertNode(Attach(F.M, node), node)]

\* put, lines 110-113: the old node is released and its value returned.
PutFinish(F, node) ==
    [M |-> IF F.old # None /\ ~F.panic THEN Free(F.M, Unwrap(F.old)) ELSE F.M,
     ret |-> IF F.panic THEN None ELSE OldValue(F.M, F.old, node),
     old |-> F.old, evict |-> F.evict, panic |-> F.panic]

\* LruCache::put on cache and memory M, with node the address Box::new
\* returns.  The result carries the new cache and memory, the returned
\* value, the locals old_node and tail, and whether tail.unwrap() panicked.
PutResult(M, node, k, v) ==
    PutFinish(PutInsert(PutEvict(PutRemoveOld(PutAlloc(M, node, k, v), node)),
                        node), node)

\* get when the map holds node for the key: the node moves to head and a
\* reference to its value is returned.
GetHit(M, node) == [M |-> M, ret |-> Some(M.heap[node].v)]
\* Mutant: a hit returns the value and leaves the node where it is.
GetNoRefresh(M, node) == GetHit(M, node)

GetRefresh(M, node) == GetHit(Attach(Detach(M, node), node), node)

\* Mutant: a miss moves the tail node to the head.
GetFoundMissRefreshes(M, found) ==
    IF found # None THEN GetRefresh(M, Unwrap(found))
    ELSE IF M.tail # None
    THEN [M |-> Attach(Detach(M, Unwrap(M.tail)), Unwrap(M.tail)), ret |-> None]
    ELSE [M |-> M, ret |-> None]

\* get with found the result of self.map.get(k)
GetFound(M, found) ==
    IF found # None THEN GetRefresh(M, Unwrap(found))
    ELSE [M |-> M, ret |-> None]

\* LruCache::get
GetResult(M, k) == GetFound(M, MapGet(M.map, M.heap, k))

\* The nodes the loop of drop visits: head, head.next, ... until None.  The
\* walk is cut after fuel nodes, which a terminating walk never needs.
RECURSIVE DropWalk(_, _, _)
DropWalk(h, hd, fuel) ==
    IF hd = None \/ fuel = 0 THEN <<>>
    ELSE <<Unwrap(hd)>> \o DropWalk(h, h[Unwrap(hd)].next, fuel - 1)

\* Drop for LruCache: head.take() and head = node.next until head is None;
\* drop(node.as_ptr()) drops a copy of the raw pointer, which releases
\* nothing.  The fields are dropped afterwards: the HashMap gives up its
\* table, and its KeyRef and NonNull entries own nothing.
DropResult(M) ==
    [M |-> [M EXCEPT !.head = None, !.map = <<>>],
     visited |-> DropWalk(M.heap, M.head, Cardinality(DOMAIN M.heap) + 1)]

----------------------------------------------------------------------------
\* History: key k is touched now.
Touch(order, k) == <<k>> \o SelectSeq(order, LAMBDA x : x # k)

\* The reference LRU cache: a sequence of <<key, value>> pairs, the most
\* recently used first, of length at most the capacity.
RefHas(r, k) == \E i \in 1..Len(r) : r[i][1] = k
RefVal(r, k) == r[CHOOSE i \in 1..Len(r) : r[i][1] = k][2]
RefWithout(r, k) == SelectSeq(r, LAMBDA e : e[1] # k)
RefTrim(r, c) == IF Len(r) >= c THEN SubSeq(r, 1, c - 1) ELSE r
RefPut(r, c, k, v) == <<<<k, v>>>> \o RefTrim(RefWithout(r, k), c)
RefGet(r, k) ==
    IF RefHas(r, k) THEN <<<<k, RefVal(r, k)>>>> \o RefWithout(r, k) ELSE r
RefRet(r, k) == IF RefHas(r, k) THEN Some(RefVal(r, k)) ELSE None

NoOp == [op |-> "new", k |-> 0, v |-> 0, old |-> None, evict |-> None,
         visited |-> <<>>]

----------------------------------------------------------------------------
Init ==
    \E c \in Caps :
        /\ status = New(c).status
        /\ cap = New(c).cap
        /\ head = New(c).head
        /\ tail = New(c).tail
        /\ map = New(c).map
        /\ heap = <<>>
        /\ nextAddr = 1
        /\ freeCount = [a \in Addrs |-> 0]
        /\ lastOp = NoOp
        /\ ret = None
        /\ touchOrder = <<>>
        /\ ref = <<>>
        /\ refRet = None
        /\ pc = "idle"

\* The cache and the memory after an operation.
Store(M) ==
    /\ head' = M.head
    /\ tail' = M.tail
    /\ map' = M.map
    /\ heap' = M.heap
    /\ freeCount' = M.freeCount

PutDone(R, k, v) ==
    /\ Store(R.M)
    /\ status' = IF R.panic THEN "panicked" ELSE "live"
    /\ ret' = R.ret
    /\ lastOp' = [NoOp EXCEPT !.op = "put", !.k = k, !.v = v,
                              !.old = R.old, !.evict = R.evict]

Put(k, v) ==
    /\ status = "live"
    /\ pc = "idle"
    /\ nextAddr <= MaxNodes
    /\ PutDone(PutResult(Cur, nextAddr, k, v), k, v)
    /\ nextAddr' = nextAddr + 1
    /\ touchOrder' = Touch(touchOrder, k)
    /\ ref' = RefPut(ref, cap, k, v)
    /\ refRet' = RefRet(ref, k)
    /\ UNCHANGED <<cap, pc>>

GetDone(R, k) ==
    /\ Store(R.M)
    /\ ret' = R.ret
    /\ touchOrder' = IF R.ret # None THEN Touch(touchOrder, k) ELSE touchOrder

Get(k) ==
    /\ status = "live"
    /\ pc = "idle"
    /\ GetDone(GetResult(Cur, k), k)
    /\ lastOp' = [NoOp EXCEPT !.op = "get", !.k = k]
    /\ ref' = RefGet(ref, k)
    /\ refRet' = RefRet(ref, k)
    /\ UNCHANGED <<status, cap, nextAddr, pc>>

DropDone(R) ==
    /\ Store(R.M)
    /\ lastOp' = [NoOp EXCEPT !.op = "drop", !.visited = R.visited]

Drop ==
    /\ status = "live"
    /\ pc = "idle"
    /\ DropDone(DropResult(Cur))
    /\ status' = "dropped"
    /\ ret' = None
    /\ UNCHANGED <<cap, nextAddr, touchOrder, ref, refRet, pc>>

Next ==
    \/ \E k \in Keys, v \in Vals : Put(k, v)
    \/ \E k \in Keys : Get(k)
    \/ Drop

Spec == Init /\ [][Next]_vars

\* detach is declared pub: a caller may invoke it on a constructed cache
\* with any NonNull<Node>.  The pointers taken here are those of allocated
\* nodes; any other pointer is dereferenced without being valid.
DetachCall(n) ==
    /\ status = "live"
    /\ pc = "idle"
    /\ Store(Detach(Cur, n))
    /\ lastOp' = [NoOp EXCEPT !.op = "detach", !.old = Some(n)]
    /\ ret' = None
    /\ UNCHANGED <<status, cap, nextAddr, touchOrder, ref, refRet, pc>>

\* Every operation the public interface offers.
NextPub ==
    \/ Next
    \/ \E n \in DOMAIN heap : DetachCall(n)

SpecPub == Init /\ [][NextPub]_vars

----------------------------------------------------------------------------
\* put statement by statement.  lastOp holds the locals (k, v, old_node,
\* tail), nextAddr is the address of the new node, pc the statement to run.

\* The locals of put as the steps pass them on.
Frame == [M |-> Cur, old |-> lastOp.old, evict |-> lastOp.evict,
          panic |-> FALSE]

\* line 95: the new node is allocated.
PutBegin(k, v) ==
    /\ status = "live"
    /\ pc = "idle"
    /\ nextAddr <= MaxNodes
    /\ Store(PutAlloc(Cur, nextAddr, k, v))
    /\ lastOp' = [NoOp EXCEPT !.op = "put", !.k = k, !.v = v]
    /\ ret' = None
    /\ pc' = "remove"
    /\ UNCHANGED <<status, cap, nextAddr, touchOrder, ref, refRet>>

RemoveDone(R) ==
    /\ Store(R.M)
    /\ lastOp' = [lastOp EXCEPT !.old = R.old]

\* lines 97-100: the entry of the key is removed, its node detached.
PutStepRemove ==
    /\ pc = "remove"
    /\ RemoveDone(PutRemoveOld(Cur, nextAddr))
    /\ pc' = "evict"
    /\ UNCHANGED <<status, cap, nextAddr, ret, touchOrder, ref, refRet>>

EvictDone(R) ==
    /\ Store(R.M)
    /\ lastOp' = [lastOp EXCEPT !.evict = R.evict]
    /\ status' = IF R.panic THEN "panicked" ELSE status
    /\ pc' = IF R.panic THEN "idle" ELSE "insert"

\* lines 102-106: the eviction branch.
PutStepEvict ==
    /\ pc = "evict"
    /\ EvictDone(PutEvict(Frame))
    /\ UNCHANGED <<cap, nextAddr, ret, touchOrder, ref, refRet>>

\* lines 108-109: the new node is attached and inserted.
PutStepInsert ==
    /\ pc = "insert"
    /\ Store(PutInsert(Frame, nextAddr).M)
    /\ pc' = "finish"
    /\ UNCHANGED <<status, cap, nextAddr, lastOp, ret, touchOrder, ref, refRet>>

FinishDone(R) ==
    /\ Store(R.M)
    /\ ret' = R.ret

\* lines 110-113: the old node is released and put returns.
PutStepFinish ==
    /\ pc = "finish"
    /\ FinishDone(PutFinish(Frame, nextAddr))
    /\ nextAddr' = nextAddr + 1
    /\ touchOrder' = Touch(touchOrder, lastOp.k)
    /\ ref' = RefPut(ref, cap, lastOp.k, lastOp.v)
    /\ refRet' = RefRet(ref, lastOp.k)
    /\ pc' = "idle"
    /\ UNCHANGED <<status, cap, lastOp>>

NextSteps ==
    \/ \E k \in Keys, v \in Vals : PutBegin(k, v)
    \/ PutStepRemove
    \/ PutStepEvict
    \/ PutStepInsert
    \/ PutStepFinish
    \/ \E k \in Keys : Get(k)
    \/ Drop

SpecSteps == Init /\ [][NextSteps]_vars

----------------------------------------------------------------------------
\* Observations of a state, used to state the properties.

Range(s) == {s[i] : i \in 1..Len(s)}
NoDup(s) == \A i, j \in 1..Len(s) : s[i] = s[j] => i = j

\* The nodes reachable from head through next links, head first.  The walk
\* stops at a pointer that leaves the heap and after more nodes than the
\* heap holds, so a cycle shows as a repeated node.
RECURSIVE Walk(_, _, _)
Walk(h, p, fuel) ==
    IF p = None \/ fuel = 0 THEN <<>>
    ELSE IF Unwrap(p) \notin DOMAIN h THEN <<Unwrap(p)>>
    ELSE <<Unwrap(p)>> \o Walk(h, h[Unwrap(p)].next, fuel - 1)

ListNodes == Walk(heap, head, Cardinality(DOMAIN heap) + 1)

\* The nodes reachable from tail through prev links, tail first.
RECURSIVE WalkBack(_, _, _)
WalkBack(h, p, fuel) ==
    IF p = None \/ fuel = 0 THEN <<>>
    ELSE IF Unwrap(p) \notin DOMAIN h THEN <<Unwrap(p)>>
    ELSE <<Unwrap(p)>> \o WalkBack(h, h[Unwrap(p)].prev, fuel - 1)

BackNodes == WalkBack(heap, tail, Cardinality(DOMAIN heap) + 1)
Reverse(s) == [i \in 1..Len(s) |-> s[Len(s) + 1 - i]]
ListLive == Range(ListNodes) \subseteq DOMAIN heap
ListKeys == [i \in 1..Len(ListNodes) |-> heap[ListNodes[i]].k]
IndexLive == \A r \in DOMAIN map : r \in DOMAIN heap /\ map[r] \in DOMAIN heap
IndexKeys == {heap[r].k : r \in DOMAIN map}
Size == Cardinality(DOMAIN map)
Live == status = "live"

\* The node the index holds for key k, and sequence s without element x.
NodeOf(k) == map[CHOOSE r \in DOMAIN map : heap[r].k = k]
Without(s, x) == SelectSeq(s, LAMBDA y : y # x)

\* Sequence s restricted to the elements of set S.
Only(s, S) == SelectSeq(s, LAMBDA y : y \in S)

\* The value the index holds for key k.
ValueOf(k) == heap[map[CHOOSE r \in DOMAIN map : heap[r].k = k]].v

\* Position of key k in the history of touches (1 = touched last).
TouchPos(k) == CHOOSE i \in 1..Len(touchOrder) : touchOrder[i] = k

\* The key present in the cache whose latest touch is the oldest.
LeastRecentlyTouched ==
    CHOOSE k \in IndexKeys : \A j \in IndexKeys : TouchPos(j) <= TouchPos(k)

TypeOK ==
    /\ status \in {"live", "panicked", "dropped"}
    /\ cap \in Caps
    /\ DOMAIN heap \subseteq Addrs
    /\ IndexLive
    /\ ListLive

----------------------------------------------------------------------------
\* C1: in a cache built with a capacity >= 1 the number of index entries is
\* at most the capacity after every put and get, and no operation changes
\* the capacity.
C1_SizeWithinCapacity ==
    /\ [](Live => (cap >= 1 /\ Size <= cap))
    /\ [][cap' = cap]_vars

\* A full cache that has already evicted an entry.
C1_Witness ==
    Live /\ lastOp.op = "put" /\ lastOp.evict # None /\ Size = cap /\ cap >= 2

\* C2: after every put and get the index and the recency list are in
\* bijection: same key set, each key once in each, every index entry points
\* to the list node that carries its key, and the lengths are equal.
C2_IndexListBijection ==
    Live =>
        /\ IndexLive
        /\ ListLive
        /\ NoDup(ListNodes)
        /\ NoDup(ListKeys)
        /\ Cardinality(IndexKeys) = Size
        /\ IndexKeys = Range(ListKeys)
        /\ \A r \in DOMAIN map :
              /\ map[r] \in Range(ListNodes)
              /\ heap[map[r]].k = heap[r].k
        /\ Size = Len(ListNodes)

\* A cache of at least two entries after a get that moved a node.
C2_Witness ==
    /\ Live /\ lastOp.op = "get" /\ ret # None /\ Size >= 2
    /\ \E a \in DOMAIN map : a > Unwrap(head)

\* C3: when a put of an absent key removes a key, the key removed is the one
\* present before the put whose latest touch (put or successful get) is the
\* oldest, and it is the only key removed.
C3_EvictsLeastRecentlyTouched ==
    [][(Live /\ lastOp'.op = "put" /\ lastOp'.k \notin IndexKeys
          /\ IndexKeys \ IndexKeys' # {})
       => IndexKeys \ IndexKeys' = {LeastRecentlyTouched}]_vars

\* An eviction that spared a node older than the evicted one: a get had
\* refreshed it.
C3_Witness ==
    /\ Live /\ lastOp.op = "put" /\ lastOp.old = None /\ lastOp.evict # None
    /\ \E a \in DOMAIN map : a < Unwrap(lastOp.evict)

\* C4: a put of a key that is present leaves the size unchanged, removes no
\* key, and returns the value the key held before the call.
C4_PutExistingKey ==
    [][(Live /\ lastOp'.op = "put" /\ lastOp'.k \in IndexKeys)
       => /\ Size' = Size
          /\ IndexKeys' = IndexKeys
          /\ ret' = Some(ValueOf(lastOp'.k))]_vars

\* A full cache of two or more entries after a put that replaced a value by
\* a different one.
C4_Witness ==
    /\ Live /\ lastOp.op = "put" /\ lastOp.old # None
    /\ Size = cap /\ cap >= 2
    /\ ret # None /\ ret # Some(lastOp.v)

\* C5: a get of a key that is absent returns None and changes nothing of the
\* cache: size, keys, values, head, tail and every link stay as they were.
C5_GetAbsentKey ==
    [][(Live /\ lastOp'.op = "get" /\ lastOp'.k \notin IndexKeys)
       => /\ ret' = None
          /\ UNCHANGED <<status, cap, head, tail, map, heap, freeCount>>]_vars

\* A miss on a cache that holds two or more entries.
C5_Witness ==
    /\ Live /\ lastOp.op = "get" /\ ret = None
    /\ lastOp.k \notin IndexKeys /\ Size >= 2

\* C6: in the state a put(k, v) leaves, get(k) returns Some(v): the result
\* of get's code on that state is the present value, not None.
C6_PutThenGet ==
    (Live /\ lastOp.op = "put")
    => GetResult(Cur, lastOp.k).ret = Some(lastOp.v)

\* A put into a full cache of capacity one, which evicted the only entry.
C6_Witness ==
    Live /\ lastOp.op = "put" /\ cap = 1 /\ lastOp.evict # None /\ Size = 1

\* C7: operation by operation the cache returns what the reference LRU
\* returns, and its keys from head to tail are the keys of the reference in
\* order.
C7_RefinesReference ==
    Live =>
        /\ ret = refRet
        /\ Len(ref) <= cap
        /\ ListLive
        /\ ListKeys = [i \in 1..Len(ref) |-> ref[i][1]]

\* A hit on a cache of two or more entries that has evicted a key before.
C7_Witness ==
    /\ Live /\ lastOp.op = "get" /\ ret # None
    /\ Len(ref) >= 2 /\ Len(touchOrder) > Len(ref)

\* C8: the size after put(k, v) is min(size before + (1 if k was absent,
\* else 0), capacity).
C8_SizeAfterPut ==
    [][(Live /\ lastOp'.op = "put")
       => Size' = IF Size + (IF lastOp'.k \in IndexKeys THEN 0 ELSE 1) <= cap
                  THEN Size + (IF lastOp'.k \in IndexKeys THEN 0 ELSE 1)
                  ELSE cap]_vars

\* A put of a new key into a full cache of two entries.
C8_Witness ==
    /\ Live /\ lastOp.op = "put" /\ lastOp.old = None /\ lastOp.evict # None
    /\ cap = 2 /\ Size = 2

\* C9: every node a put removes from the cache (the old node of a replaced
\* key, the evicted tail) is released in that put, so the nodes allocated
\* and not released are exactly the nodes of the cache.
C9_NoLeakedNode ==
    Live =>
        /\ lastOp.old # None => Unwrap(lastOp.old) \notin DOMAIN heap
        /\ lastOp.evict # None => Unwrap(lastOp.evict) \notin DOMAIN heap
        /\ DOMAIN heap = Range(ListNodes)

\* C10: dropping the cache ends its walk from head, releases every node of
\* the list exactly once, and leaves no node allocated and not released.
C10_DropReleasesAll ==
    status = "dropped" =>
        /\ head = None
        /\ NoDup(lastOp.visited)
        /\ \A n \in Range(lastOp.visited) : freeCount[n] = 1
        /\ DOMAIN heap = {}

\* C11: a get of a key that is present returns the key's value, makes its
\* node the head, keeps the order of the other nodes, and changes neither
\* the index, nor a key or value, nor the size, nor the set of allocated
\* nodes: nothing is allocated or released.
C11_GetPresentKey ==
    [][(Live /\ lastOp'.op = "get" /\ lastOp'.k \in IndexKeys)
       => /\ ret' = Some(ValueOf(lastOp'.k))
          /\ head' = Some(NodeOf(lastOp'.k))
          /\ ListNodes' = <<NodeOf(lastOp'.k)>>
                          \o Without(ListNodes, NodeOf(lastOp'.k))
          /\ map' = map
          /\ Size' = Size
          /\ DOMAIN heap' = DOMAIN heap
          /\ \A a \in DOMAIN heap : heap'[a].k = heap[a].k /\ heap'[a].v = heap[a].v
          /\ freeCount' = freeCount
          /\ nextAddr' = nextAddr]_vars

\* A hit that moved the tail of a list of three nodes to the head.
C11_Witness ==
    /\ Live /\ lastOp.op = "get" /\ ret # None /\ Size = 3
    /\ heap[Unwrap(head)].k = lastOp.k
    /\ Unwrap(head) < Unwrap(tail)

\* C12: construction with capacity 0 panics and leaves no usable cache, so
\* no live cache has capacity 0; construction with a capacity >= 1 gives a
\* live, empty cache of that capacity.
C12_Construction ==
    /\ Live => cap >= 1
    /\ cap = 0 => status = "panicked"
    /\ lastOp.op = "new" =>
          /\ head = None /\ tail = None /\ map = <<>> /\ heap = <<>>
          /\ status = (IF cap >= 1 THEN "live" ELSE "panicked")

\* The outcome of new(0).
C12_Witness == lastOp.op = "new" /\ cap = 0 /\ status = "panicked"

\* C13: every operation a caller can invoke on a constructed cache keeps the
\* index and the recency list in bijection and the size within the capacity.
C13_PublicOpsKeepInvariants ==
    Live =>
        /\ Size <= cap
        /\ IndexLive
        /\ ListLive
        /\ Size = Len(ListNodes)
        /\ IndexKeys = Range(ListKeys)

\* C14: between operations the recency list is well formed: no node
\* repeats, next from head reaches tail in size steps and prev from tail
\* reaches head likewise, head has no prev and tail no next, neighbours
\* point at each other, and head, tail and the index are empty together.
C14_ListWellFormed ==
    Live =>
        /\ ListLive
        /\ NoDup(ListNodes)
        /\ Len(ListNodes) = Size
        /\ BackNodes = Reverse(ListNodes)
        /\ (head = None) = (tail = None)
        /\ (head = None) = (DOMAIN map = {})
        /\ head # None =>
              /\ heap[Unwrap(head)].prev = None
              /\ tail = Some(ListNodes[Len(ListNodes)])
              /\ heap[ListNodes[Len(ListNodes)]].next = None
        /\ \A i \in 1..(Len(ListNodes) - 1) :
              /\ heap[ListNodes[i]].next = Some(ListNodes[i + 1])
              /\ heap[ListNodes[i + 1]].prev = Some(ListNodes[i])

\* A list of three nodes whose middle node a get has moved to the head.
C14_Witness ==
    Live /\ lastOp.op = "get" /\ Size = 3 /\ ListNodes = <<2, 3, 1>>

\* C15: a put removes at most one other key, and it removes one exactly
\* when its key was absent and the cache held capacity entries; a put that
\* replaces a present key removes no other key.
C15_EvictsOnlyWhenNewAndFull ==
    [][(Live /\ lastOp'.op = "put")
       => /\ Cardinality(IndexKeys \ IndexKeys') <= 1
          /\ (IndexKeys \ IndexKeys' # {})
               = (lastOp'.k \notin IndexKeys /\ Size = cap)
          /\ (lastOp'.evict # None)
               = (lastOp'.k \notin IndexKeys /\ Size = cap)
          /\ lastOp'.k \in IndexKeys => IndexKeys' = IndexKeys]_vars

\* A put that replaced a key of a full cache of capacity one.
C15_Witness ==
    /\ Live /\ lastOp.op = "put" /\ lastOp.old # None /\ lastOp.evict = None
    /\ cap = 1 /\ Size = 1

\* C16: when put takes its eviction branch the list has a tail, so
\* self.tail.unwrap() never panics: no put ends in a panic, and in every
\* live state no put would.
C16_TailUnwrapNeverPanics ==
    /\ status = "panicked" => lastOp.op = "new"
    /\ Live => \A k \in Keys, v \in Vals : ~PutResult(Cur, nextAddr, k, v).panic

\* A put that took the eviction branch on a list of one node.
C16_Witness ==
    /\ Live /\ lastOp.op = "put" /\ lastOp.evict # None /\ cap = 1
    /\ lastOp.evict # head /\ Size = 1

\* C17: after put(k, v) the node of k is the head and holds v, put returned
\* None exactly when k was absent, and every other key still present was
\* present before, keeps its value, and keeps its place relative to the
\* other surviving keys.
C17_PutFrame ==
    [][(Live /\ lastOp'.op = "put")
       => /\ ListLive'
          /\ head' # None
          /\ heap'[Unwrap(head')].k = lastOp'.k
          /\ heap'[Unwrap(head')].v = lastOp'.v
          /\ (NodeOf(lastOp.k))' = Unwrap(head')
          /\ (ret' = None) = (lastOp'.k \notin IndexKeys)
          /\ \A j \in IndexKeys' \ {lastOp'.k} :
                j \in IndexKeys /\ (ValueOf(j))' = ValueOf(j)
          /\ Without(ListKeys', lastOp'.k)
               = Only(ListKeys, IndexKeys' \ {lastOp'.k})]_vars

\* A put that replaced the key of the tail node of a list of two.
C17_Witness ==
    /\ Live /\ lastOp.op = "put" /\ lastOp.old = Some(1)
    /\ ret # None /\ ListNodes = <<3, 2>>

\* C18: in every state, the states inside put included, no node was
\* released twice and nothing refers to a released node: not head, not
\* tail, not a prev or next link of an allocated node, not a key reference
\* or a value of the index.
C18_NoUseAfterRelease ==
    /\ \A a \in Addrs :
          freeCount[a] <= 1 /\ (freeCount[a] = 1 => a \notin DOMAIN heap)
    /\ head # None => Unwrap(head) \in DOMAIN heap
    /\ tail # None => Unwrap(tail) \in DOMAIN heap
    /\ \A a \in DOMAIN heap :
          /\ heap[a].prev # None => Unwrap(heap[a].prev) \in DOMAIN heap
          /\ heap[a].next # None => Unwrap(heap[a].next) \in DOMAIN heap
    /\ \A r \in DOMAIN map : r \in DOMAIN heap /\ map[r] \in DOMAIN heap

\* put has just released the old node of a replaced key that had a
\* neighbour in the list.
C18_Witness ==
    /\ pc = "idle" /\ lastOp.op = "put" /\ lastOp.old # None
    /\ freeCount[Unwrap(lastOp.old)] = 1
    /\ Size >= 2

\* The list of a cache value M, forwards from head and backwards from tail.
NodesOf(M) == Walk(M.heap, M.head, Cardinality(DOMAIN M.heap) + 1)
BackOf(M) == WalkBack(M.heap, M.tail, Cardinality(DOMAIN M.heap) + 1)

\* D is what detach(n) makes of M: n alone has left the list, the others
\* keep their order in both directions, head and tail move only past n,
\* n's links are None, and the index and the keys and values are untouched.
DetachedFrom(M, n, D) ==
    /\ NodesOf(D) = Without(NodesOf(M), n)
    /\ BackOf(D) = Reverse(NodesOf(D))
    /\ D.head = (IF M.heap[n].prev = None THEN M.heap[n].next ELSE M.head)
    /\ D.tail = (IF M.heap[n].next = None THEN M.heap[n].prev ELSE M.tail)
    /\ D.heap[n].prev = None
    /\ D.heap[n].next = None
    /\ D.map = M.map
    /\ DOMAIN D.heap = DOMAIN M.heap
    /\ \A a \in DOMAIN M.heap :
          D.heap[a].k = M.heap[a].k /\ D.heap[a].v = M.heap[a].v

\* A is what attach(n) makes of D, in which n is detached: n is the head,
\* the others follow in their order, and n is the tail too when the list
\* was empty.
AttachedTo(D, n, A) ==
    /\ A.head = Some(n)
    /\ NodesOf(A) = <<n>> \o NodesOf(D)
    /\ BackOf(A) = Reverse(NodesOf(A))
    /\ A.tail = (IF D.head = None THEN Some(n) ELSE D.tail)
    /\ A.map = D.map

\* C19: for a node at any place of the list (head, tail, middle, only
\* node) detach removes that node alone, keeps the order of the others,
\* moves head to its next when it had no prev and tail to its prev when it
\* had no next, and resets its links; attach of the detached node makes it
\* the head, and the tail too when the list was empty.
C19_DetachAttach ==
    Live =>
        \A n \in Range(ListNodes) :
            /\ DetachedFrom(Cur, n, Detach(Cur, n))
            /\ AttachedTo(Detach(Cur, n), n, Attach(Detach(Cur, n), n))

\* A list of three nodes, so that head, middle and tail are all there,
\* whose tail a get has just detached and attached.
C19_Witness ==
    Live /\ lastOp.op = "get" /\ ret # None /\ ListNodes = <<1, 3, 2>>

====
